---- MODULE Spec2Model ----
(***************************************************************************)
(* Model of AttributeMappingListItem, the form that maps one external      *)
(* (IdVP) attribute name to one local claim                                *)
(* (attribute-mapping-list-item.tsx).                                      *)
(*                                                                         *)
(* Strings typed into the external-value field are sequences of            *)
(* characters; the JavaScript value undefined is a sentinel of the same    *)
(* shape as the values it stands in for.                                   *)
(***************************************************************************)
EXTENDS Integers, Sequences, FiniteSets, TLC

\* Longest string the user types into the external-value field.
MaxLen == 2

Chars == {" ", "a", ":"}

Strings == UNION {[1..n -> Chars] : n \in 0..MaxLen}

\* JavaScript undefined, for a string, a claim id, a boolean and a claim.
UndefinedStr == <<"undefined">>
UndefinedId == "undefined"
UndefinedBool == "undefined"
UndefinedClaim == [id |-> UndefinedId, displayName |-> "undefined"]

\* Return values of the field validation.
NoError == "undefined"
FIELD_REQUIRED_ERROR == "REQUIRED"
INVALID_RESOURCE_ERROR == "INVALID_FORMAT"
DUPLICATE_ERROR == "DUPLICATE"

\* IDVPLocalClaimInterface objects the parent hands in.
A1 == [id |-> "a1", displayName |-> "First"]
A2 == [id |-> "a2", displayName |-> "Second"]
A3 == [id |-> "a3", displayName |-> "Third"]

\* IDVPClaimMappingInterface objects: a resource name, a URI, a stored value
\* that is in neither form, and a row whose external value is still empty.
M1 == [idvpClaim |-> <<"a">>, localClaim |-> A1]
M2 == [idvpClaim |-> <<"a", ":">>, localClaim |-> A2]
M3 == [idvpClaim |-> <<":">>, localClaim |-> A3]
M0 == [idvpClaim |-> <<>>, localClaim |-> A1]
\* props.mapping left out by the parent: mapping?.x is undefined.
NoMapping == [idvpClaim |-> UndefinedStr, localClaim |-> UndefinedClaim]

\* The values the parent passes as props.mapping.
MappingProps == {NoMapping, M0, M1, M2, M3}

\* The values the parent passes as props.availableAttributeList.
AvailableLists == {<<>>, <<A3>>, <<A1, A3>>, <<A3, A2>>, <<A1, A2, A3>>}

\* The values the parent passes as props.alreadyMappedAttributesList.
AlreadyMappedLists == {<<>>, <<M1>>, <<M1, M2>>, <<M2, M3>>, <<M0, M1>>}

VARIABLES
    availableAttributeList,            \* prop
    alreadyMappedAttributesList,       \* prop
    editingMode,                       \* prop
    mapping,                           \* prop
    copyOfAttrs,                       \* useState
    mappedInputValue,                  \* useState
    selectedLocalAttributeInputValue,  \* useState
    mappingHasError,                   \* useState
    formValues,                        \* values held by the <Form>
    mappedValueError,                  \* what the last validation returned
    mounted,                           \* the mount effects have run
    lastEvent,                         \* the event handled last
    calls                              \* onSubmit calls made by that event

vars == <<availableAttributeList, alreadyMappedAttributesList, editingMode, mapping,
          copyOfAttrs, mappedInputValue, selectedLocalAttributeInputValue,
          mappingHasError, formValues, mappedValueError, mounted, lastEvent, calls>>

props == <<availableAttributeList, alreadyMappedAttributesList, editingMode, mapping>>

----------------------------------------------------------------------------
\* JavaScript truthiness of a string (undefined and "" are falsy).
Truthy(s) == s # UndefinedStr /\ s # <<>>

\* Truthiness of a claim id.
TruthyId(id) == id # UndefinedId /\ id # ""

\* Truthiness of the tri-state error flag.
TruthyBool(b) == b = "true"

RECURSIVE TrimStart(_)
TrimStart(s) == IF s # <<>> /\ Head(s) = " " THEN TrimStart(Tail(s)) ELSE s

RECURSIVE TrimEnd(_)
TrimEnd(s) ==
    IF s # <<>> /\ s[Len(s)] = " " THEN TrimEnd(SubSeq(s, 1, Len(s) - 1)) ELSE s

\* String.prototype.trim
trim(s) == TrimEnd(TrimStart(s))

\* FormValidation.url: scheme of letters, a colon, no white space.
url(s) ==
    /\ \A i \in 1..Len(s) : s[i] # " "
    /\ \E k \in 1..Len(s) :
        /\ k > 1
        /\ s[k] = ":"
        /\ \A i \in 1..(k - 1) : s[i] = "a"

\* FormValidation.isValidResourceName: a non-empty run of name characters.
isValidResourceName(s) == s # <<>> /\ \A i \in 1..Len(s) : s[i] = "a"

toBits(bool) == IF bool THEN 1 ELSE 0

BitOr(a, b) == IF a + b > 0 THEN 1 ELSE 0

\* The & of two bits.
BitAnd(a, b) == a * b

NoTrimBlank(value) == ~Truthy(value)

\* !value || !value.trim()
IsBlank(value) == ~Truthy(value) \/ ~Truthy(trim(value))

PassingFail(reason) == [error |-> reason, hasError |-> "false"]

\* setMappingHasError(true); return <reason>
Fail(reason) == [error |-> reason, hasError |-> "true"]

\* setMappingHasError(false); return undefined
Pass == [error |-> NoError, hasError |-> "false"]

\* new Set(alreadyMappedAttributesList.map(a => a.idvpClaim))
mappedValues(already) == {already[i].idvpClaim : i \in 1..Len(already)}

AnyEditIsOwn(editing, m, value) == editing

NeverOwn(editing, m, value) == FALSE

\* editingMode && mapping?.idvpClaim === value
IsOwnValue(editing, m, value) == editing /\ m.idvpClaim = value

\* The validation prop of the mappedValue field: the returned error and the
\* value it gives mappingHasError.
validation(value, already, editing, m) ==
    IF IsBlank(value) THEN Fail(FIELD_REQUIRED_ERROR)
    ELSE IF BitAnd(toBits(~url(value)), toBits(~isValidResourceName(value))) # 0
        THEN Fail(INVALID_RESOURCE_ERROR)
    ELSE IF value \in mappedValues(already)
        THEN IF IsOwnValue(editing, m, value) THEN Pass ELSE Fail(DUPLICATE_ERROR)
    ELSE Pass

AlwaysAppend(available, editing, m) == Append(available, m.localClaim)

\* The copy the effect on availableAttributeList hands to setCopyOfAttrs.
DeriveCandidateList(available, editing, m) ==
    IF editing /\ Truthy(m.idvpClaim) /\ m.localClaim # UndefinedClaim
    THEN Append(available, m.localClaim)
    ELSE available

\* Array.prototype.find on claim.id === id
find(attrs, id) ==
    IF \E i \in 1..Len(attrs) : attrs[i].id = id
    THEN attrs[CHOOSE i \in 1..Len(attrs) :
                  /\ attrs[i].id = id
                  /\ \A j \in 1..(i - 1) : attrs[j].id # id]
    ELSE UndefinedClaim

\* newAttributeMapping of onFormSub
newAttributeMapping(values, attrs) ==
    [idvpClaim |-> values.mappedValue, localClaim |-> find(attrs, values.localClaimId)]

AlwaysReset(editing) == TRUE

\* if (!editingMode) of onFormSub
ResetsAfterSubmit(editing) == ~editing

\* The disabled prop of both submit buttons.
SubmitDisabled ==
    \/ TruthyBool(mappingHasError)
    \/ ~Truthy(mappedInputValue)
    \/ ~TruthyId(selectedLocalAttributeInputValue)

\* The values of the dropdown options.
OptionValues == {copyOfAttrs[i].id : i \in 1..Len(copyOfAttrs)}

----------------------------------------------------------------------------
\* The first render: useState defaults, the form seeded with initialValues.
Init ==
    /\ availableAttributeList \in AvailableLists
    /\ alreadyMappedAttributesList \in AlreadyMappedLists
    /\ editingMode \in BOOLEAN
    /\ mapping \in MappingProps
    /\ copyOfAttrs = <<>>
    /\ mappedInputValue = UndefinedStr
    /\ selectedLocalAttributeInputValue = UndefinedId
    /\ mappingHasError = UndefinedBool
    /\ formValues = [mappedValue |-> mapping.idvpClaim, localClaimId |-> mapping.localClaim.id]
    /\ mappedValueError = NoError
    /\ mounted = FALSE
    /\ lastEvent = "render"
    /\ calls = <<>>

\* The two effects that run after the first render.
Mount ==
    /\ ~mounted
    /\ mounted' = TRUE
    /\ IF editingMode
       THEN /\ mappedInputValue' = mapping.idvpClaim
            /\ selectedLocalAttributeInputValue' = mapping.localClaim.id
       ELSE UNCHANGED <<mappedInputValue, selectedLocalAttributeInputValue>>
    /\ copyOfAttrs' = DeriveCandidateList(availableAttributeList, editingMode, mapping)
    /\ lastEvent' = "mount"
    /\ calls' = <<>>
    /\ UNCHANGED <<props, mappingHasError, formValues, mappedValueError>>

\* The parent renders with another availableAttributeList: the effect reruns.
ChangeAvailable ==
    /\ mounted
    /\ \E list \in AvailableLists \ {availableAttributeList} :
        /\ availableAttributeList' = list
        /\ copyOfAttrs' = DeriveCandidateList(list, editingMode, mapping)
    /\ lastEvent' = "available"
    /\ calls' = <<>>
    /\ UNCHANGED <<alreadyMappedAttributesList, editingMode, mapping, mappedInputValue,
                   selectedLocalAttributeInputValue, mappingHasError, formValues,
                   mappedValueError, mounted>>

\* The parent renders with another alreadyMappedAttributesList.
ChangeAlreadyMapped ==
    /\ mounted
    /\ \E list \in AlreadyMappedLists \ {alreadyMappedAttributesList} :
        alreadyMappedAttributesList' = list
    /\ lastEvent' = "alreadyMapped"
    /\ calls' = <<>>
    /\ UNCHANGED <<availableAttributeList, editingMode, mapping, copyOfAttrs,
                   mappedInputValue, selectedLocalAttributeInputValue, mappingHasError,
                   formValues, mappedValueError, mounted>>

\* The user edits the external-value field: validation, then listen.
Input ==
    /\ mounted
    /\ \E value \in Strings :
        LET r == validation(value, alreadyMappedAttributesList, editingMode, mapping)
        IN  /\ formValues' = [formValues EXCEPT !.mappedValue = value]
            /\ mappedValueError' = r.error
            /\ mappingHasError' = r.hasError
            /\ mappedInputValue' = value
    /\ lastEvent' = "input"
    /\ calls' = <<>>
    /\ UNCHANGED <<props, copyOfAttrs, selectedLocalAttributeInputValue, mounted>>

\* The user picks or clears an option of the dropdown: the form revalidates
\* the external value, then listen.
Select ==
    /\ mounted
    /\ \E id \in OptionValues \cup {""} :
        LET r == validation(formValues.mappedValue, alreadyMappedAttributesList,
                            editingMode, mapping)
        IN  /\ formValues' = [formValues EXCEPT !.localClaimId = id]
            /\ mappedValueError' = r.error
            /\ mappingHasError' = r.hasError
            /\ selectedLocalAttributeInputValue' = id
    /\ lastEvent' = "select"
    /\ calls' = <<>>
    /\ UNCHANGED <<props, copyOfAttrs, mappedInputValue, mounted>>

\* onFormSub, reached through a submit button that is not disabled.  Outside
\* edit mode form.change("mappedValue", "") makes the form validate the emptied
\* field before the drafts are cleared.
Submit ==
    /\ mounted
    /\ ~SubmitDisabled
    /\ calls' = <<newAttributeMapping(formValues, copyOfAttrs)>>
    /\ IF ResetsAfterSubmit(editingMode)
       THEN LET r == validation(<<>>, alreadyMappedAttributesList, editingMode, mapping)
            IN  /\ formValues' = [mappedValue |-> <<>>, localClaimId |-> ""]
                /\ mappedValueError' = r.error
                /\ mappingHasError' = r.hasError
                /\ mappedInputValue' = <<>>
                /\ selectedLocalAttributeInputValue' = ""
       ELSE UNCHANGED <<formValues, mappedValueError, mappingHasError, mappedInputValue,
                        selectedLocalAttributeInputValue>>
    /\ lastEvent' = "submit"
    /\ UNCHANGED <<props, copyOfAttrs, mounted>>

Next ==
    \/ Mount
    \/ ChangeAvailable
    \/ ChangeAlreadyMapped
    \/ Input
    \/ Select
    \/ Submit

Spec == Init /\ [][Next]_vars

----------------------------------------------------------------------------
(* Vocabulary of the properties, stated without the operators of the model. *)

\* The external value the form holds.
externalValue == formValues.mappedValue

\* The event handled last ran the validation on externalValue with the
\* props as they are now.
JustValidated ==
    \/ lastEvent \in {"input", "select"}
    \/ lastEvent = "submit" /\ ~editingMode

WhitespaceOnly(s) == s = UndefinedStr \/ \A i \in 1..Len(s) : s[i] = " "

FormatValid(s) == url(s) \/ isValidResourceName(s)

\* s is the external value of a mapping other than the one being edited.
DuplicateOfAnother(s) ==
    \E i \in 1..Len(alreadyMappedAttributesList) :
        /\ alreadyMappedAttributesList[i].idvpClaim = s
        /\ ~(editingMode /\ alreadyMappedAttributesList[i] = mapping)

Invalid(s) == WhitespaceOnly(s) \/ ~FormatValid(s) \/ DuplicateOfAnother(s)

SelectedIsCandidate ==
    \E i \in 1..Len(copyOfAttrs) : copyOfAttrs[i].id = selectedLocalAttributeInputValue

----------------------------------------------------------------------------
\* C1: submit is enabled only when both drafts are non-empty and no
\* validation error is active, and whenever the current external value is
\* invalid (blank, wrong format, or a duplicate of another mapping's value)
\* submit is disabled.
C1_SubmitDisabledWhileInvalid ==
    mounted =>
        /\ ~SubmitDisabled =>
            /\ Truthy(mappedInputValue)
            /\ TruthyId(selectedLocalAttributeInputValue)
            /\ mappingHasError # "true"
        /\ Invalid(mappedInputValue) => SubmitDisabled

\* C2: every submission calls onSubmit exactly once, with the submitted
\* external-value draft and the element of the candidate list whose id is the
\* selected id.
C2_SubmitEmitsSelectedMapping ==
    [][lastEvent' = "submit" =>
        /\ Len(calls') = 1
        /\ calls'[1].idvpClaim = mappedInputValue
        /\ calls'[1].idvpClaim = formValues.mappedValue
        /\ \E i \in 1..Len(copyOfAttrs) :
            /\ copyOfAttrs[i].id = selectedLocalAttributeInputValue
            /\ calls'[1].localClaim = copyOfAttrs[i]]_vars

\* C3: a submission in non-edit mode calls the callback and leaves both
\* drafts empty; a submission in edit mode leaves both drafts as they were.
C3_SubmitResetsOnlyOutsideEditMode ==
    [][lastEvent' = "submit" =>
        /\ calls' # <<>>
        /\ IF editingMode
           THEN /\ mappedInputValue' = mappedInputValue
                /\ selectedLocalAttributeInputValue' = selectedLocalAttributeInputValue
           ELSE /\ mappedInputValue' = <<>>
                /\ selectedLocalAttributeInputValue' = ""]_vars

C3_Witness ==
    /\ lastEvent = "submit"
    /\ ~editingMode
    /\ Len(calls) = 1
    /\ Truthy(calls[1].idvpClaim)
    /\ mappedInputValue = <<>>
    /\ selectedLocalAttributeInputValue = ""

\* C4 as stated: once mounted, the candidate list is the available list,
\* with the local attribute of the mapping appended whenever the editor is in
\* edit mode with a mapping.
C4_CandidateListAsStated ==
    mounted =>
        copyOfAttrs = IF editingMode /\ mapping # NoMapping
                      THEN Append(availableAttributeList, mapping.localClaim)
                      ELSE availableAttributeList

\* C4 amended: once mounted, the candidate list is the available list, with
\* the local attribute of the mapping appended at the end exactly once when
\* the editor is in edit mode with a mapping whose external value is not
\* empty, and nothing appended otherwise.
C4_CandidateList ==
    mounted =>
        copyOfAttrs = IF editingMode /\ mapping # NoMapping /\ mapping.idvpClaim # <<>>
                      THEN availableAttributeList \o <<mapping.localClaim>>
                      ELSE availableAttributeList

C4_Witness ==
    /\ lastEvent = "available"
    /\ editingMode
    /\ Len(availableAttributeList) = 2
    /\ copyOfAttrs = availableAttributeList \o <<mapping.localClaim>>

\* C5 as stated: a value equal to the external value of a mapping the
\* editor is not editing is rejected as DUPLICATE.
C5_DuplicateAsStated ==
    JustValidated /\ DuplicateOfAnother(externalValue) =>
        mappedValueError = DUPLICATE_ERROR

\* C5 amended: a non-blank value in URI or resource-name form that equals
\* the external value of a mapping the editor is not editing is rejected as
\* DUPLICATE.
C5_Duplicate ==
    JustValidated /\ DuplicateOfAnother(externalValue)
                  /\ ~WhitespaceOnly(externalValue) /\ FormatValid(externalValue) =>
        mappedValueError = DUPLICATE_ERROR /\ mappingHasError = "true"

C5_Witness ==
    /\ lastEvent = "input"
    /\ editingMode
    /\ mapping = M1
    /\ externalValue = M2.idvpClaim
    /\ mappedValueError = DUPLICATE_ERROR

\* C6 as stated: in edit mode, the unchanged external value of the mapping
\* being edited passes validation, with the error flag false, although it is
\* among the already mapped values.
C6_EditIdempotenceAsStated ==
    /\ JustValidated
    /\ editingMode
    /\ mapping # NoMapping
    /\ externalValue = mapping.idvpClaim
    /\ \E i \in 1..Len(alreadyMappedAttributesList) :
           alreadyMappedAttributesList[i].idvpClaim = externalValue
    => mappedValueError = NoError /\ mappingHasError = "false"

\* C6 amended: in edit mode, the unchanged external value of the mapping
\* being edited, when it is non-blank and in URI or resource-name form,
\* passes validation, with the error flag false, although it is among the
\* already mapped values.
C6_EditIdempotence ==
    /\ JustValidated
    /\ editingMode
    /\ mapping # NoMapping
    /\ externalValue = mapping.idvpClaim
    /\ \E i \in 1..Len(alreadyMappedAttributesList) :
           alreadyMappedAttributesList[i].idvpClaim = externalValue
    /\ ~WhitespaceOnly(externalValue)
    /\ FormatValid(externalValue)
    => mappedValueError = NoError /\ mappingHasError = "false"

C6_Witness ==
    /\ lastEvent = "input"
    /\ editingMode
    /\ mapping = M2
    /\ externalValue = M2.idvpClaim
    /\ alreadyMappedAttributesList = <<M1, M2>>
    /\ mappingHasError = "false"

\* C7: a non-blank, format-valid, non-duplicate value passes validation with
\* the error flag false, and after every run of the validation the error
\* flag is true exactly when the validation returned an error.
C7_ValidPassesAndFlagFollowsResult ==
    /\ JustValidated =>
        /\ mappingHasError \in {"true", "false"}
        /\ ~WhitespaceOnly(externalValue) /\ FormatValid(externalValue)
              /\ ~DuplicateOfAnother(externalValue)
           => mappedValueError = NoError /\ mappingHasError = "false"
    /\ mappingHasError = "true" <=> mappedValueError # NoError

C7_Witness ==
    /\ lastEvent = "input"
    /\ externalValue = <<"a", "a">>
    /\ mappedValueError = NoError
    /\ mappingHasError = "false"

\* C8: a blank or whitespace-only value is rejected as REQUIRED whatever the
\* props are, and the reported reason is that of the first failing check in
\* the order REQUIRED, INVALID_FORMAT, DUPLICATE.
C8_RequiredFirstThenFormatThenDuplicate ==
    JustValidated =>
        /\ WhitespaceOnly(externalValue) => mappedValueError = FIELD_REQUIRED_ERROR
        /\ mappedValueError =
              IF WhitespaceOnly(externalValue) THEN FIELD_REQUIRED_ERROR
              ELSE IF ~FormatValid(externalValue) THEN INVALID_RESOURCE_ERROR
              ELSE IF DuplicateOfAnother(externalValue) THEN DUPLICATE_ERROR
              ELSE NoError

C8_Witness ==
    /\ lastEvent = "input"
    /\ externalValue = <<" ">>
    /\ editingMode
    /\ alreadyMappedAttributesList = <<M0, M1>>
    /\ mappedValueError = FIELD_REQUIRED_ERROR

\* C9 as stated: a non-blank value is rejected as INVALID_FORMAT exactly
\* when it is neither a URI nor a resource name, and a value in exactly one
\* of the two forms passes validation.
C9_DisjunctiveFormatAsStated ==
    JustValidated /\ ~WhitespaceOnly(externalValue) =>
        /\ mappedValueError = INVALID_RESOURCE_ERROR
              <=> ~url(externalValue) /\ ~isValidResourceName(externalValue)
        /\ url(externalValue) # isValidResourceName(externalValue)
              => mappedValueError = NoError

\* C9 amended: a non-blank value is rejected as INVALID_FORMAT exactly when
\* it is neither a URI nor a resource name, and a value in exactly one of the
\* two forms passes validation unless it duplicates the external value of a
\* mapping the editor is not editing.
C9_DisjunctiveFormat ==
    JustValidated /\ ~WhitespaceOnly(externalValue) =>
        /\ mappedValueError = INVALID_RESOURCE_ERROR
              <=> ~url(externalValue) /\ ~isValidResourceName(externalValue)
        /\ url(externalValue) # isValidResourceName(externalValue)
              /\ ~DuplicateOfAnother(externalValue)
              => mappedValueError = NoError

C9_Witness ==
    /\ lastEvent = "input"
    /\ url(externalValue)
    /\ ~isValidResourceName(externalValue)
    /\ mappedValueError = NoError

\* C10: whenever submit is enabled the selected local-attribute id is the id
\* of an element of the candidate list, and no call of onSubmit carries an
\* absent local attribute.
C10_SubmittedLocalAttributePresent ==
    /\ mounted /\ ~SubmitDisabled => SelectedIsCandidate
    /\ \A i \in 1..Len(calls) : calls[i].localClaim # UndefinedClaim

====
